---- MODULE Spec2Model ----
(***************************************************************************)
(* Model of the pension fund comparison page (src/js/main.js): the dataset *)
(* loaded once, the selection state (fund type, manager, period radio,     *)
(* language) and the five tables renderTables produces from them.          *)
(*                                                                         *)
(* Numbers.  A JavaScript value that may be null, NaN, +-Infinity or a     *)
(* number is a pair <<tag, n>>.  Report dates are whole days since         *)
(* 1970-01-01 (the JSON holds date-only ISO strings, which parse to UTC    *)
(* midnight); calendar fields are read in a time zone whose offset does    *)
(* not move a quarter-end date across a month boundary.  Percentages are   *)
(* fixed-point integers, FP units per percent; a growth factor is a        *)
(* fixed-point integer with GF units per 1.0; the annualised return is     *)
(* resolved to AF units per 1.0, one hundredth of a percent.               *)
(*                                                                         *)
(* Spec is the page: the load of the dataset and the clicks on the         *)
(* language buttons, the period buttons and the two menus.  SpecCall is    *)
(* renderTables called on a loaded dataset with any period code.  SpecPure *)
(* is fmtSigned and geometricCumulativeGrowth called on their own.         *)
(***************************************************************************)
EXTENDS Integers, Sequences, FiniteSets, TLC

VARIABLES rawData, fundTypes, allManagers, selectedFundType, selectedManager,
          currentLang, checkedPeriod, disabledPeriods, range, tables,
          input, output

vars == <<rawData, fundTypes, allManagers, selectedFundType, selectedManager,
          currentLang, checkedPeriod, disabledPeriods, range, tables,
          input, output>>

(***************************************************************************)
(* JavaScript values                                                       *)
(***************************************************************************)
Null == <<"null", 0>>
NaN == <<"nan", 0>>
PosInf == <<"inf", 1>>
NegInf == <<"inf", -1>>
Num(n) == <<"num", n>>
IsNum(v) == v[1] = "num"
\* v == null || Number.isNaN(v)
IsMissing(v) == v[1] \in {"null", "nan"}
\* ToNumber as Math.min / Math.max apply it: null is 0
ToNumber(v) == IF v[1] = "null" THEN Num(0) ELSE v

\* the sign of (a - b) as Array.prototype.sort reads a comparator's result:
\* NaN (a NaN operand, or Infinity - Infinity) counts as 0
SubSign(a, b) ==
  IF a[1] = "nan" \/ b[1] = "nan" THEN 0
  ELSE IF a[1] = "inf" /\ b[1] = "inf"
         THEN (IF a[2] = b[2] THEN 0 ELSE a[2])
  ELSE IF a[1] = "inf" THEN a[2]
  ELSE IF b[1] = "inf" THEN -b[2]
  ELSE IF a[2] < b[2] THEN -1 ELSE IF a[2] > b[2] THEN 1 ELSE 0

(***************************************************************************)
(* Calendar: Date.getFullYear / getMonth / getDate / setMonth              *)
(***************************************************************************)
DaysFromCivil(y, m, d) ==
  LET yy == IF m <= 2 THEN y - 1 ELSE y
      era == yy \div 400
      yoe == yy - era * 400
      mp == IF m > 2 THEN m - 3 ELSE m + 9
      doy == (153 * mp + 2) \div 5 + d - 1
      doe == yoe * 365 + yoe \div 4 - yoe \div 100 + doy
  IN era * 146097 + doe - 719468

CivilFromDays(z) ==
  LET zz == z + 719468
      era == zz \div 146097
      doe == zz - era * 146097
      yoe == (doe - doe \div 1460 + doe \div 36524 - doe \div 146096) \div 365
      doy == doe - (365 * yoe + yoe \div 4 - yoe \div 100)
      mp == (5 * doy + 2) \div 153
      d == doy - (153 * mp + 2) \div 5 + 1
      m == IF mp < 10 THEN mp + 3 ELSE mp - 9
      y == yoe + era * 400 + (IF m <= 2 THEN 1 ELSE 0)
  IN [year |-> y, month |-> m, day |-> d]

\* base.setMonth(base.getMonth() - back): the day of the month is kept and a
\* day past the end of the target month rolls into the next month
SetMonthBack(date, back) ==
  LET c == CivilFromDays(date)
      m0 == (c.month - 1) - back
      y == c.year + (m0 \div 12)
      m == m0 % 12
  IN DaysFromCivil(y, m + 1, 1) + (c.day - 1)

\* new Date(end.getFullYear(), 0, 1)
StartOfYear(date) == DaysFromCivil(CivilFromDays(date).year, 1, 1)

(***************************************************************************)
(* Sequences and sets                                                      *)
(***************************************************************************)
\* data.map(r => r.report_date)
MapDates(rows) == [i \in DOMAIN rows |-> rows[i].report_date]

Range(s) == {s[i] : i \in DOMAIN s}
\* Math.max.apply(null, dates) and Math.min.apply(null, dates), dates not empty
SetMax(S) == CHOOSE x \in S : \A y \in S : y <= x
SetMin(S) == CHOOSE x \in S : \A y \in S : x <= y

\* rows.filter(r => r.fund_type === ft)
FilterFundType(rows, ft) == SelectSeq(rows, LAMBDA r : r.fund_type = ft)
\* rows.filter(r => r.company_short === c)
FilterCompany(rows, c) == SelectSeq(rows, LAMBDA r : r.company_short = c)

(***************************************************************************)
(* 3. Helpers: the time range of a period                                  *)
(***************************************************************************)
NullRange == [isNull |-> TRUE, start |-> 0, end |-> 0]
MkRange(s, e) == [isNull |-> FALSE, start |-> s, end |-> e]

YtdRangeFrom(end) == MkRange(StartOfYear(end), end)
getYtdRange(data) == YtdRangeFrom(SetMax(Range(MapDates(data))))

\* the cutoff: base.setMonth(base.getMonth() - (months - 1)), base = end
Cutoff(end, months) == SetMonthBack(end, months - 1)

\* data.filter(r => r.report_date > base).map(r => r.report_date)
CandidatesAfter(dates, base) == {d \in dates : d > base}

\* a start taken from the wrong end of the candidates
PreviousYearRangeFromLatest(candidates, end) ==
  IF candidates = {} THEN NullRange
  ELSE MkRange(SetMax(candidates), end)
PreviousYearRangeFrom(candidates, end) ==
  IF candidates = {} THEN NullRange
  ELSE MkRange(SetMin(candidates), end)
PreviousYearRangeOf(dates, end, months) ==
  PreviousYearRangeFrom(CandidatesAfter(dates, Cutoff(end, months)), end)
getPreviousYearRange(data, months) ==
  PreviousYearRangeOf(Range(MapDates(data)), SetMax(Range(MapDates(data))), months)

\* /^\d+$/.test(period) and parseInt(period, 10), on the period codes used
ParseInt ==
  [p \in {"0", "1", "2", "3", "4", "5"} |->
     CASE p = "0" -> 0 [] p = "1" -> 1 [] p = "2" -> 2
       [] p = "3" -> 3 [] p = "4" -> 4 [] p = "5" -> 5]
IsDigits(p) == p \in DOMAIN ParseInt

AllRangeOf(allDates) == MkRange(SetMin(allDates), SetMax(allDates))

getRange(data, period, raw) ==
  IF data = <<>> THEN NullRange
  ELSE IF period = "YTD" THEN getYtdRange(data)
  ELSE IF period = "ALL" THEN AllRangeOf(Range(MapDates(raw)))
  ELSE IF IsDigits(period)
    THEN getPreviousYearRange(data, ParseInt[period] * 12)
  ELSE NullRange

\* r.report_date >= start && r.report_date <= end; a null bound converts to 0
InRange(r, rg) ==
  IF rg.isNull THEN r.report_date >= 0 /\ r.report_date <= 0
  ELSE r.report_date >= rg.start /\ r.report_date <= rg.end

(***************************************************************************)
(* 3. Helpers: growth, annualised return, formatting                       *)
(***************************************************************************)
\* fixed point: GF units per 1.0 of a growth factor, FP units per percent,
\* AF units per 1.0 of an annualised factor
GF == 1000000
FP == 10000
AF == 10000
\* the largest annualised factor the fixed-point power tells apart
AFCap == 50000

Min(a, b) == IF a < b THEN a ELSE b

\* series.filter(v => v != null && !Number.isNaN(v))
Clean(series) == SelectSeq(series, LAMBDA v : v[1] = "num")

RECURSIVE Compound(_, _, _)
\* results.reduce((acc, x) => acc * (1.0 + x), 1.0) with x = v / 100, from
\* entry i on
Compound(clean, i, acc) ==
  IF i > Len(clean) THEN acc
  ELSE Compound(clean, i + 1, (acc * (100 + clean[i][2])) \div 100)

RECURSIVE SumChanges(_, _)
SumChanges(clean, i) ==
  IF i > Len(clean) THEN 0 ELSE clean[i][2] + SumChanges(clean, i + 1)
\* growth added up instead of compounded
GrowthAsSum(series) ==
  IF Clean(series) = <<>> THEN NaN ELSE Num(FP * SumChanges(Clean(series), 1))
\* no growth, in place of NaN, for a series without a number
GrowthZeroWhenEmpty(clean) ==
  IF clean = <<>> THEN Num(0) ELSE Num(Compound(clean, 1, GF) - GF)
GrowthOfClean(clean) ==
  IF clean = <<>> THEN NaN ELSE Num(Compound(clean, 1, GF) - GF)
\* the cumulative growth in FP units, or NaN
geometricCumulativeGrowth(series) == GrowthOfClean(Clean(series))

RECURSIVE PowFix(_, _)
\* y^n in AF fixed point, each product rounded, saturating at AFCap
PowFix(y, n) ==
  IF n = 0 THEN AF
  ELSE Min((PowFix(y, n - 1) * y + AF \div 2) \div AF, AFCap)

RECURSIVE RootSearch(_, _, _, _)
\* the largest y in lo..hi with y^n <= target
RootSearch(lo, hi, n, target) ==
  IF lo >= hi THEN lo
  ELSE IF PowFix((lo + hi + 1) \div 2, n) <= target
    THEN RootSearch((lo + hi + 1) \div 2, hi, n, target)
    ELSE RootSearch(lo, (lo + hi + 1) \div 2 - 1, n, target)

\* Math.pow(1.0 + totalGrowth, 1.0 / years) with years = quarters / 4; the
\* base in GF units, the result in AF units
PowQuarters(base, quarters) ==
  RootSearch(0, AFCap, quarters, PowFix(base \div (GF \div AF), 4))

AnnualisedOfClean(clean) ==
  IF Len(clean) = 0 THEN NaN
  ELSE Num((PowQuarters(GF + GrowthOfClean(clean)[2], Len(clean)) - AF)
           * (GF \div AF))
\* the annualised return in FP units, or NaN
annualisedYearlyReturn(series) == AnnualisedOfClean(Clean(series))

\* a table cell: a message, or a number printed with dec decimals
MsgCell(text) == [msg |-> text, sign |-> "", digits |-> 0, dec |-> 0]
NumCell(n, dec) ==
  [msg |-> "", sign |-> IF n < 0 THEN "-" ELSE "",
   digits |-> IF n < 0 THEN -n ELSE n, dec |-> dec]
PlusCell(n, dec) == [msg |-> "", sign |-> "+", digits |-> n, dec |-> dec]

\* Math.round(val * 100) for val in FP units: floor(val * 100 + 0.5)
RoundHundredths(v) == (v + (FP \div 200)) \div (FP \div 100)

\* the sign test with >= in place of >
SignedCellPlusOnZero(rounded) ==
  IF rounded >= 0 THEN PlusCell(rounded, 2) ELSE NumCell(rounded, 2)
SignedCell(rounded) ==
  IF rounded > 0 THEN PlusCell(rounded, 2) ELSE NumCell(rounded, 2)
\* fmtSigned(val, 2, msgIfNaN)
fmtSigned(val, msgIfNaN) ==
  IF val[1] \in {"null", "nan"} THEN MsgCell(msgIfNaN)
  ELSE SignedCell(RoundHundredths(val[2]))

(***************************************************************************)
(* 1. i18n: the two messages the tables use                                *)
(***************************************************************************)
\* t(key) under the current language (the Lithuanian texts without diacritics)
t(lang, key) ==
  IF lang = "lt"
    THEN (IF key = "msg.fund_not_exist"
            THEN "Fondas tuo laikotarpiu dar neegzistavo"
            ELSE "Nera duomenu")
    ELSE (IF key = "msg.fund_not_exist"
            THEN "Fund did not exist"
            ELSE "No data reported")

(***************************************************************************)
(* 2. Data loading                                                         *)
(***************************************************************************)
\* a JSON value of a numeric field: null, a number, or text that is no number
JNull == <<"null", 0>>
JNum(n) == <<"num", n>>
JText == <<"str", 0>>

\* r.x != null ? Number(r.x) : null
NumberOrNull(j) ==
  IF j[1] = "null" THEN Null
  ELSE IF j[1] = "num" THEN Num(j[2])
  ELSE NaN

\* new Date(r.report_date) for a date-only ISO string
ParseDate(d) == DaysFromCivil(d.year, d.month, d.day)

parseData(rows) ==
  [i \in DOMAIN rows |->
     [report_date |-> ParseDate(rows[i].report_date),
      fund_type |-> rows[i].fund_type,
      company_short |-> rows[i].company_short,
      relative_change |-> NumberOrNull(rows[i].relative_change),
      number_of_participants |-> NumberOrNull(rows[i].number_of_participants),
      bik_pct |-> NumberOrNull(rows[i].bik_pct)]]

\* the order Array.prototype.sort() gives the names used
NameOrder == <<"A", "B", "C", "D", "X", "Y">>
\* Array.from(new Set(names)).sort()
SortedNames(S) == SelectSeq(NameOrder, LAMBDA n : n \in S)

(***************************************************************************)
(* 5. Tables                                                               *)
(***************************************************************************)
\* 365.25 days are YU quarter-days: years are counted in units of 1/YU year,
\* in which days / 365.25 is the integer 4 * days
YU == 1461
\* 1 / 1e-6: the tolerance of the coverage test is YU / EpsilonInverse units
EpsilonInverse == 1000000

SpanOfDates(dates) == SetMax(dates) - SetMin(dates)
SpanDays(rows) == SpanOfDates(Range(MapDates(rows)))

\* coverage measured without the filter by company
CoverageOfFundType(fundData, c) == 4 * SpanDays(fundData)
\* coverageYears[c] in units of 1/YU year, over the company's whole history
\* under the fund type
coverageYears(fundData, c) == 4 * SpanDays(FilterCompany(fundData, c))

\* a requirement for year counts only
requestedYearsOfDigits(period, rg) ==
  IF IsDigits(period)
    THEN [isNull |-> FALSE, units |-> ParseInt[period] * YU]
  ELSE [isNull |-> TRUE, units |-> 0]
\* requestedYears in units of 1/YU year; none for YTD and for unknown codes
requestedYears(period, rg) ==
  IF period = "ALL" /\ ~rg.isNull
    THEN [isNull |-> FALSE, units |-> 4 * (rg.end - rg.start)]
  ELSE IF IsDigits(period)
    THEN [isNull |-> FALSE, units |-> ParseInt[period] * YU]
  ELSE [isNull |-> TRUE, units |-> 0]

\* short + 1e-6 years <= 0 for a shortfall in units of 1/YU year
WithinEpsilon(short) ==
  short <= 0 \/ (short <= YU /\ short * EpsilonInverse <= YU)
\* a strict comparison without the tolerance
hasEnoughHistoryStrictly(covYears, req) ==
  IF req.isNull THEN TRUE ELSE covYears > req.units
\* covYears + 1e-6 >= requestedYears, or true without a requirement
hasEnoughHistory(covYears, req) ==
  IF req.isNull THEN TRUE ELSE WithinEpsilon(req.units - covYears)

\* the place of row i after the stable sort by date
DateRank(rows, i) ==
  Cardinality({j \in DOMAIN rows :
     \/ rows[j].report_date < rows[i].report_date
     \/ (rows[j].report_date = rows[i].report_date /\ j <= i)})
\* grpRange.slice().sort((a, b) => a.report_date - b.report_date), stable
SortByDate(rows) ==
  [k \in DOMAIN rows |-> rows[CHOOSE i \in DOMAIN rows : DateRank(rows, i) = k]]

\* Math.min.apply(null, xs) / Math.max.apply(null, xs) in FP units: NaN if
\* any entry is NaN, and null entries count as 0
MathMin(xs) ==
  IF \E i \in DOMAIN xs : xs[i][1] = "nan" THEN NaN
  ELSE Num(FP * SetMin({ToNumber(xs[i])[2] : i \in DOMAIN xs}))
MathMax(xs) ==
  IF \E i \in DOMAIN xs : xs[i][1] = "nan" THEN NaN
  ELSE Num(FP * SetMax({ToNumber(xs[i])[2] : i \in DOMAIN xs}))

\* participant counts are held in PU units per participant, expense ratios in
\* BU units per 1.0
PU == 2
BU == 10000
\* Math.round(x) for x in PU units: floor(x + 0.5)
MathRound(v) == (2 * v + PU) \div (2 * PU)
\* x.toFixed(3) for x >= 0 in BU units, in thousandths
ToFixed3(v) == (2 * v + (BU \div 1000)) \div (2 * (BU \div 1000))

\* the participants columns and sort key from the first and last counts
PartCells(latest, diff) ==
  [latest |-> NumCell(latest, 0),
   change |-> IF diff >= 0 THEN PlusCell(diff, 0) ELSE NumCell(diff, 0),
   sort |-> Num(latest)]
PartResult(firstPart, lastPart, msgFundNotExist) ==
  IF IsMissing(firstPart) \/ IsMissing(lastPart)
    THEN [latest |-> MsgCell(msgFundNotExist),
          change |-> MsgCell(msgFundNotExist), sort |-> NegInf]
    ELSE PartCells(MathRound(lastPart[2]), MathRound(lastPart[2] - firstPart[2]))

\* the expense ratio column and sort key from the last ratio
\* a missing ratio given the sort key that sorts first
BikResultMissingFirst(lastBik, msgNoData) ==
  IF IsMissing(lastBik) THEN [cell |-> MsgCell(msgNoData), sort |-> NegInf]
  ELSE [cell |-> NumCell(ToFixed3(lastBik[2]), 3), sort |-> lastBik]
BikResult(lastBik, msgNoData) ==
  IF IsMissing(lastBik) THEN [cell |-> MsgCell(msgNoData), sort |-> PosInf]
  ELSE [cell |-> NumCell(ToFixed3(lastBik[2]), 3), sort |-> lastBik]

\* the rows pushed for a company that is not eligible
NoDataMetrics(c, msgFundNotExist) ==
  [company_short |-> c, eligible |-> FALSE,
   cumulative_growth |-> MsgCell(msgFundNotExist), growthSort |-> NaN,
   avg_yearly_return |-> MsgCell(msgFundNotExist), avgSort |-> NaN,
   worst_quarter |-> MsgCell(msgFundNotExist),
   best_quarter |-> MsgCell(msgFundNotExist), worstSort |-> NaN,
   participants_latest |-> MsgCell(msgFundNotExist),
   participants_change |-> MsgCell(msgFundNotExist), sortPart |-> NaN,
   expense_ratio |-> MsgCell(msgFundNotExist), sortBik |-> NaN]

\* the rows pushed for an eligible company
NumericRows(c, growthVal, avgVal, worstVal, bestVal, part, bik, msgFundNotExist) ==
  [company_short |-> c, eligible |-> TRUE,
   cumulative_growth |-> fmtSigned(growthVal, msgFundNotExist),
   growthSort |-> growthVal,
   avg_yearly_return |-> fmtSigned(avgVal, msgFundNotExist),
   avgSort |-> avgVal,
   worst_quarter |-> fmtSigned(worstVal, msgFundNotExist),
   best_quarter |-> fmtSigned(bestVal, msgFundNotExist),
   worstSort |-> worstVal,
   participants_latest |-> part.latest,
   participants_change |-> part.change,
   sortPart |-> part.sort,
   expense_ratio |-> bik.cell,
   sortBik |-> bik.sort]

RelChanges(sorted) == [i \in DOMAIN sorted |-> sorted[i].relative_change]

\* the metrics of an eligible company from its rows in the window, by date
NumericMetrics(c, sorted, relChanges, msgFundNotExist, msgNoData) ==
  NumericRows(c,
    geometricCumulativeGrowth(relChanges),
    annualisedYearlyReturn(relChanges),
    MathMin(relChanges),
    MathMax(relChanges),
    PartResult(sorted[1].number_of_participants,
               sorted[Len(sorted)].number_of_participants, msgFundNotExist),
    BikResult(sorted[Len(sorted)].bik_pct, msgNoData),
    msgFundNotExist)

\* !(!grpRange.length || !hasEnoughHistory)
Eligible(grpRange, covYears, req) ==
  grpRange # <<>> /\ hasEnoughHistory(covYears, req)

\* what one renderTables pass computes for company c
CompanyMetrics(fundData, rangeData, req, c, msgFundNotExist, msgNoData) ==
  IF Eligible(FilterCompany(rangeData, c),
              coverageYears(fundData, c), req)
    THEN NumericMetrics(c, SortByDate(FilterCompany(rangeData, c)),
                        RelChanges(SortByDate(FilterCompany(rangeData, c))),
                        msgFundNotExist, msgNoData)
    ELSE NoDataMetrics(c, msgFundNotExist)

\* Array.from(new Set(fundData.map(r => r.company_short))).sort()
Companies(fundData) ==
  SortedNames({fundData[i].company_short : i \in DOMAIN fundData})

\* the per-company results of the companies.forEach pass, in company order
MetricsOf(fundData, rangeData, req, companies, msgFundNotExist, msgNoData) ==
  [i \in DOMAIN companies |->
     CompanyMetrics(fundData, rangeData, req, companies[i],
                    msgFundNotExist, msgNoData)]

TableNames == {"growth", "avg", "extremes", "participants", "bik"}

\* the columns renderTable shows of a row, after the company name
Cells(m, table) ==
  CASE table = "growth" -> <<m.cumulative_growth>>
    [] table = "avg" -> <<m.avg_yearly_return>>
    [] table = "extremes" -> <<m.worst_quarter, m.best_quarter>>
    [] table = "participants" -> <<m.participants_latest, m.participants_change>>
    [] table = "bik" -> <<m.expense_ratio>>

\* the _sort field of a row of the numeric list
SortKey(m, table) ==
  CASE table = "growth" -> m.growthSort
    [] table = "avg" -> m.avgSort
    [] table = "extremes" -> m.worstSort
    [] table = "participants" -> m.sortPart
    [] table = "bik" -> m.sortBik

\* 1 for (a, b) => a._sort - b._sort, -1 for (a, b) => b._sort - a._sort
SortDir(table) == IF table \in {"extremes", "bik"} THEN 1 ELSE -1

PermsOf(n) == {f \in [1..n -> 1..n] : \A i, j \in 1..n : f[i] = f[j] => i = j}

\* what the comparator result r says of two neighbours of the result that
\* stood at places i and j of the input: in order, or tied and not swapped
InOrder(r, i, j) == r < 0 \/ (r = 0 /\ i < j)

\* Array.prototype.sort with the comparator dir * (a - b): the orders that
\* leave every pair of neighbours in order.  For keys without NaN this is the
\* one stable sorted order; a NaN key compares as a tie with every key, the
\* comparator is then inconsistent and the order depends on the engine's
\* algorithm (insertion and merge sorts both end in one of these orders)
SortOutcomes(keys, dir) ==
  {f \in PermsOf(Len(keys)) :
     \A k \in 1..(Len(keys) - 1) :
        InOrder(dir * SubSign(keys[f[k]], keys[f[k + 1]]), f[k], f[k + 1])}

Orders(numeric, table) ==
  SortOutcomes([i \in DOMAIN numeric |-> SortKey(numeric[i], table)],
               SortDir(table))

Row(m, table) == [company_short |-> m.company_short, cells |-> Cells(m, table)]

\* the sorted numeric rows without the concat of the no-data rows
TableRowsNumericOnly(numeric, noData, table, f) ==
  [k \in DOMAIN numeric |-> Row(numeric[f[k]], table)]
\* numeric.sort(...), delete _sort, numeric.concat(noData)
TableRows(numeric, noData, table, f) ==
  [k \in DOMAIN numeric |-> Row(numeric[f[k]], table)]
    \o [k \in DOMAIN noData |-> Row(noData[k], table)]

EmptyTables ==
  [growth |-> <<>>, avg |-> <<>>, extremes |-> <<>>, participants |-> <<>>,
   bik |-> <<>>]

\* the five tables the numeric and no-data lists may be rendered as
TablesOfLists(numeric, noData) ==
  {[growth |-> TableRows(numeric, noData, "growth", fg),
    avg |-> TableRows(numeric, noData, "avg", fa),
    extremes |-> TableRows(numeric, noData, "extremes", fe),
    participants |-> TableRows(numeric, noData, "participants", fp),
    bik |-> TableRows(numeric, noData, "bik", fb)] :
     fg \in Orders(numeric, "growth"), fa \in Orders(numeric, "avg"),
     fe \in Orders(numeric, "extremes"), fp \in Orders(numeric, "participants"),
     fb \in Orders(numeric, "bik")}

TablesOfMetrics(all) ==
  TablesOfLists(SelectSeq(all, LAMBDA m : m.eligible),
                SelectSeq(all, LAMBDA m : ~m.eligible))

\* renderTables from the fund type's rows and the resolved range on
renderTables(fundData, rg, period, lang) ==
  TablesOfMetrics(
    MetricsOf(fundData, SelectSeq(fundData, LAMBDA r : InRange(r, rg)),
              requestedYears(period, rg), Companies(fundData),
              t(lang, "msg.fund_not_exist"), t(lang, "msg.no_data_reported")))

\* baseData: the whole dataset for ALL, the fund type's rows otherwise
BaseData(raw, fundData, period) == IF period = "ALL" THEN raw ELSE fundData

(***************************************************************************)
(* 4. UI helpers                                                           *)
(***************************************************************************)
\* null, for a selection
NoSelection == ""
\* the values of the period radios
PeriodValues == {"YTD", "1", "2", "3", "4", "5", "ALL"}
YearRadios == {p \in PeriodValues : IsDigits(p)}
\* Math.min(maxWholeYears, 5)
MaxPeriodYears == 5

Buttons(checked, disabled) == [checked |-> checked, disabled |-> disabled]

\* the span taken over the fund type whichever manager is selected
ManagerDataOfFundType(fundData, mgr) == fundData
\* the selected manager's rows under the fund type, or all of the fund type's
ManagerData(fundData, mgr) ==
  IF mgr = NoSelection \/ FilterCompany(fundData, mgr) = <<>> THEN fundData
  ELSE FilterCompany(fundData, mgr)

\* Math.min(Math.floor(spanYears), 5)
maxButtonYears(managerData) ==
  Min((4 * SpanDays(managerData)) \div YU, MaxPeriodYears)

\* the radios after the forEach passes: year counts above maxYears disabled,
\* and YTD checked if the checked period is not valid
ButtonsFor(maxYears, checked) ==
  Buttons(IF IsDigits(checked) /\ ParseInt[checked] > maxYears
            THEN "YTD" ELSE checked,
          {p \in YearRadios : ParseInt[p] > maxYears})

updatePeriodButtons(raw, ft, mgr, checked, disabled) ==
  IF ft = NoSelection \/ raw = <<>> THEN Buttons(checked, disabled)
  ELSE IF FilterFundType(raw, ft) = <<>> THEN Buttons(checked, disabled)
  ELSE ButtonsFor(maxButtonYears(ManagerData(FilterFundType(raw, ft), mgr)),
                  checked)

\* one renderTables pass: the tables and the range it resolved
RenderFund(fundData, rg, period, lang) ==
  /\ range' = rg
  /\ tables' \in renderTables(fundData, rg, period, lang)

RenderPass(raw, ft, period, lang) ==
  IF ft = NoSelection THEN tables' = EmptyTables /\ range' = range
  ELSE IF FilterFundType(raw, ft) = <<>> THEN UNCHANGED <<tables, range>>
  ELSE RenderFund(FilterFundType(raw, ft),
                  getRange(BaseData(raw, FilterFundType(raw, ft), period),
                           period, raw),
                  period, lang)

\* updatePeriodButtons(); renderTables()
Refresh(raw, ft, mgr, lang, b) ==
  /\ checkedPeriod' = b.checked
  /\ disabledPeriods' = b.disabled
  /\ RenderPass(raw, ft, b.checked, lang)

(***************************************************************************)
(* The datasets data/combined_results.json is drawn from: quarterly        *)
(* reports, quarter 0 ending 2022-03-31                                    *)
(***************************************************************************)
\* the last quarter of the timeline
MaxQ == 8

QuarterMonth(q) == 3 * (q % 4) + 3
\* the report date of quarter q, as the fields of its ISO string
QuarterEnd(q) ==
  [year |-> 2022 + q \div 4, month |-> QuarterMonth(q),
   day |-> IF QuarterMonth(q) \in {3, 12} THEN 31 ELSE 30]

JRow(ft, c, q, change, part, bik) ==
  [report_date |-> QuarterEnd(q), fund_type |-> ft, company_short |-> c,
   relative_change |-> change, number_of_participants |-> part,
   bik_pct |-> bik]

NameIndex(c) == CHOOSE i \in DOMAIN NameOrder : NameOrder[i] = c
\* values that differ from company to company and from quarter to quarter
DefaultPart(c, q) == JNum(PU * (1000 * NameIndex(c) + 10 * q))
DefaultBik(c) == JNum(4000 + 100 * NameIndex(c))

\* quarterly rows of company c from quarter first to quarter last, each with
\* a change of 2 percent
History(ft, c, first, last) ==
  [i \in 1..(last - first + 1) |->
     JRow(ft, c, first + i - 1, JNum(2), DefaultPart(c, first + i - 1),
          DefaultBik(c))]

Reverse(s) == [i \in DOMAIN s |-> s[Len(s) + 1 - i]]

\* a second fund type whose one company reports in the first and last quarter
OtherFundType ==
  <<JRow("Y", "D", MaxQ, JNum(1), DefaultPart("D", MaxQ), DefaultBik("D")),
    JRow("Y", "D", 0, JNum(1), DefaultPart("D", 0), DefaultBik("D"))>>

\* histories of different lengths: A from quarter 0 or 1, B (latest rows
\* first) with two to six quarters, both to the last quarter or the one before
CoverageDatasets ==
  {History("X", "A", fa, la) \o Reverse(History("X", "B", fb, lb)) \o other :
     fa \in {0, 1}, la \in {MaxQ - 1, MaxQ},
     fb \in {MaxQ - 5, MaxQ - 2}, lb \in {MaxQ - 1, MaxQ},
     other \in {<<>>, OtherFundType}}

\* company c reporting the three last quarters with the given values (B's
\* rows are loaded latest first)
Recent(c, changes, parts, biks) ==
  [i \in 1..3 |-> JRow("X", c, MaxQ - 3 + i, changes[i], parts[i], biks[i])]
\* company c reporting the last quarter only
Newcomer(c) ==
  <<JRow("X", c, MaxQ, JNum(1), DefaultPart(c, MaxQ), DefaultBik(c))>>

DefaultChanges == <<JNum(1), JNum(1), JNum(1)>>
DefaultParts(c) == [i \in 1..3 |-> DefaultPart(c, MaxQ - 3 + i)]
DefaultBiks(c) == [i \in 1..3 |-> DefaultBik(c)]

ChangePatterns ==
  {DefaultChanges,
   <<JNum(2), JNull, JNum(3)>>,
   <<JNull, JNull, JNull>>,
   <<JNum(-3), JText, JNum(4)>>}

ChangeDatasets ==
  {Recent("A", ca, DefaultParts("A"), DefaultBiks("A"))
     \o Reverse(Recent("B", cb, DefaultParts("B"), DefaultBiks("B"))) \o third :
     ca \in ChangePatterns, cb \in ChangePatterns,
     third \in {Newcomer("C"),
                Recent("C", <<JNum(2), JNull, JNum(3)>>, DefaultParts("C"),
                       DefaultBiks("C"))}}

\* participant counts in PU units (halves)
PartPatterns ==
  {<<JNum(PU * 1000), JNull, JNum(PU * 1010 + 1)>>,
   <<JNum(PU * 900 + 1), JNum(PU * 890), JNum(PU * 881)>>,
   <<JNull, JNum(PU * 500), JNum(PU * 700)>>,
   <<JNum(PU * 800), JNum(PU * 800), JText>>}

PartDatasets ==
  {Recent("A", DefaultChanges, pa, DefaultBiks("A"))
     \o Reverse(Recent("B", DefaultChanges, pb, DefaultBiks("B"))) \o third :
     pa \in PartPatterns, pb \in PartPatterns,
     third \in {Newcomer("C"),
                Recent("C", DefaultChanges, DefaultParts("C"), DefaultBiks("C"))}}

\* expense ratios in BU units
BikPatterns ==
  {<<JNull, JNum(5000), JNum(4326)>>,
   <<JNum(3000), JNum(3000), JNull>>,
   <<JNum(3000), JNull, JText>>}

BikDatasets ==
  {Recent("A", DefaultChanges, DefaultParts("A"), ba)
     \o Reverse(Recent("B", DefaultChanges, DefaultParts("B"), bb)) \o third :
     ba \in BikPatterns, bb \in BikPatterns,
     third \in {Newcomer("C"),
                Recent("C", DefaultChanges, DefaultParts("C"), DefaultBiks("C"))}}

Datasets == CoverageDatasets \cup ChangeDatasets \cup PartDatasets \cup BikDatasets

(***************************************************************************)
(* 7. Init: the page and its handlers                                      *)
(***************************************************************************)
Languages == {"lt", "en"}

\* the argument and the result of a helper called on its own; none on the page
NoInput == [fn |-> "none", val |-> Null, series |-> <<>>]
NoOutput == [done |-> FALSE, cell |-> MsgCell(""), val |-> Null]

Init ==
  /\ rawData = <<>>
  /\ fundTypes = <<>>
  /\ allManagers = <<>>
  /\ selectedFundType = NoSelection
  /\ selectedManager = NoSelection
  /\ currentLang = "lt"
  /\ checkedPeriod = "YTD"
  /\ disabledPeriods = {}
  /\ range = NullRange
  /\ tables = EmptyTables
  /\ input = NoInput
  /\ output = NoOutput

First(names) == IF names # <<>> THEN names[1] ELSE NoSelection

\* loadData, then initFilters() and applyLanguage("lt")
Loaded(raw, fts, mgrs) ==
  /\ rawData' = raw
  /\ fundTypes' = fts
  /\ allManagers' = mgrs
  /\ selectedFundType' = First(fts)
  /\ selectedManager' = First(mgrs)
  /\ currentLang' = "lt"
  /\ Refresh(raw, First(fts), First(mgrs), "lt",
             updatePeriodButtons(raw, First(fts), First(mgrs),
               updatePeriodButtons(raw, First(fts), First(mgrs), checkedPeriod,
                                   disabledPeriods).checked,
               updatePeriodButtons(raw, First(fts), First(mgrs), checkedPeriod,
                                   disabledPeriods).disabled))
  /\ UNCHANGED <<input, output>>

LoadParsed(raw) ==
  Loaded(raw, SortedNames({raw[i].fund_type : i \in DOMAIN raw}),
         SortedNames({raw[i].company_short : i \in DOMAIN raw}))

\* the fetch of the dataset resolves
LoadData ==
  /\ rawData = <<>>
  /\ \E json \in Datasets : LoadParsed(parseData(json))

\* a click on a language button: applyLanguage(lang)
ClickLanguage ==
  \E lang \in Languages :
    /\ currentLang' = lang
    /\ Refresh(rawData, selectedFundType, selectedManager, lang,
               updatePeriodButtons(rawData, selectedFundType, selectedManager,
                                   checkedPeriod, disabledPeriods))
    /\ UNCHANGED <<rawData, fundTypes, allManagers, selectedFundType,
                   selectedManager, input, output>>

\* a click on a period button
ClickPeriod ==
  \E p \in PeriodValues :
    IF p \in disabledPeriods THEN UNCHANGED vars
    ELSE /\ checkedPeriod' = p
         /\ RenderPass(rawData, selectedFundType, p, currentLang)
         /\ UNCHANGED <<rawData, fundTypes, allManagers, selectedFundType,
                        selectedManager, currentLang, disabledPeriods, input,
                        output>>

\* a click on an item of the fund type menu
ClickFundType ==
  \E ft \in Range(fundTypes) :
    /\ selectedFundType' = ft
    /\ Refresh(rawData, ft, selectedManager, currentLang,
               updatePeriodButtons(rawData, ft, selectedManager, checkedPeriod,
                                   disabledPeriods))
    /\ UNCHANGED <<rawData, fundTypes, allManagers, selectedManager, currentLang,
                   input, output>>

\* a click on an item of the manager menu
ClickManager ==
  \E mgr \in Range(allManagers) :
    /\ selectedManager' = mgr
    /\ Refresh(rawData, selectedFundType, mgr, currentLang,
               updatePeriodButtons(rawData, selectedFundType, mgr,
                                   checkedPeriod, disabledPeriods))
    /\ UNCHANGED <<rawData, fundTypes, allManagers, selectedFundType,
                   currentLang, input, output>>

Next ==
  \/ LoadData
  \/ ClickLanguage
  \/ ClickPeriod
  \/ ClickFundType
  \/ ClickManager

Spec == Init /\ [][Next]_vars

(***************************************************************************)
(* renderTables called on its own, with any value the checked period radio *)
(* may carry (the page's markup is not part of the sources)                *)
(***************************************************************************)
\* the radios' values, a year count of 0 and a code that is no period
PeriodCodes == PeriodValues \cup {"0", "Q"}

InitLoaded(raw) ==
  /\ rawData = raw
  /\ fundTypes = SortedNames({raw[i].fund_type : i \in DOMAIN raw})
  /\ allManagers = SortedNames({raw[i].company_short : i \in DOMAIN raw})
  /\ selectedFundType \in {raw[i].fund_type : i \in DOMAIN raw}
  /\ selectedManager = NoSelection
  /\ currentLang = "lt"
  /\ checkedPeriod = "YTD"
  /\ disabledPeriods = {}
  /\ range = NullRange
  /\ tables = EmptyTables
  /\ input = NoInput
  /\ output = NoOutput

\* a row whose report date is 1970-01-01, time value 0
EpochRow(ft, c) ==
  [report_date |-> [year |-> 1970, month |-> 1, day |-> 1], fund_type |-> ft,
   company_short |-> c, relative_change |-> JNum(1),
   number_of_participants |-> DefaultPart(c, 0), bik_pct |-> DefaultBik(c)]
\* A with a full history, and a row of that date for C alone or for A as well
EpochDatasets ==
  {History("X", "A", 0, MaxQ) \o <<EpochRow("X", "C")>>,
   <<EpochRow("X", "A")>> \o History("X", "A", 0, MaxQ) \o Newcomer("C")}

InitCall ==
  \E json \in CoverageDatasets \cup EpochDatasets : InitLoaded(parseData(json))

\* renderTables() with getSelectedPeriod() giving p
CallRenderTables ==
  \E p \in PeriodCodes :
    /\ checkedPeriod' = p
    /\ RenderPass(rawData, selectedFundType, p, currentLang)
    /\ UNCHANGED <<rawData, fundTypes, allManagers, selectedFundType,
                   selectedManager, currentLang, disabledPeriods, input, output>>

NextCall == CallRenderTables

SpecCall == InitCall /\ [][NextCall]_vars

(***************************************************************************)
(* The helpers called on their own: fmtSigned(val, 2) with the default     *)
(* message, and geometricCumulativeGrowth(series)                          *)
(***************************************************************************)
\* undefined, as an array entry
Undefined == <<"undef", 0>>

\* the arguments of fmtSigned run over every value up to MaxVal FP units
\* (MaxVal / FP percent) either side of zero, and over 3.456 and -3.456
MaxVal == 160
FmtValues ==
  {Null, NaN, Num(34560), Num(-34560)}
    \cup {Num(v) : v \in (-MaxVal)..MaxVal}

\* the series are at most MaxLen entries long; quarterly changes in whole
\* percent whose growth factors have one decimal
MaxLen == 3
SeriesEntries == {Null, Undefined, NaN, Num(-50), Num(0), Num(10), Num(100)}
SeriesOfLen(n) == [1..n -> SeriesEntries]
SeriesValues == UNION {SeriesOfLen(n) : n \in 0..MaxLen}

InitPure ==
  /\ rawData = <<>>
  /\ fundTypes = <<>>
  /\ allManagers = <<>>
  /\ selectedFundType = NoSelection
  /\ selectedManager = NoSelection
  /\ currentLang \in Languages
  /\ checkedPeriod = "YTD"
  /\ disabledPeriods = {}
  /\ range = NullRange
  /\ tables = EmptyTables
  /\ \/ \E v \in FmtValues :
          input = [fn |-> "fmtSigned", val |-> v, series |-> <<>>]
     \/ \E series \in SeriesValues :
          input = [fn |-> "geometricCumulativeGrowth", val |-> Null,
                   series |-> series]
  /\ output = NoOutput

\* fmtSigned(val, 2): msgIfNaN takes its default, t("msg.fund_not_exist")
CallFmtSigned ==
  /\ input.fn = "fmtSigned"
  /\ ~output.done
  /\ output' = [done |-> TRUE,
                cell |-> fmtSigned(input.val,
                                   t(currentLang, "msg.fund_not_exist")),
                val |-> Null]
  /\ UNCHANGED <<rawData, fundTypes, allManagers, selectedFundType,
                 selectedManager, currentLang, checkedPeriod, disabledPeriods,
                 range, tables, input>>

\* geometricCumulativeGrowth(series)
CallGeometricCumulativeGrowth ==
  /\ input.fn = "geometricCumulativeGrowth"
  /\ ~output.done
  /\ output' = [done |-> TRUE, cell |-> MsgCell(""),
                val |-> geometricCumulativeGrowth(input.series)]
  /\ UNCHANGED <<rawData, fundTypes, allManagers, selectedFundType,
                 selectedManager, currentLang, checkedPeriod, disabledPeriods,
                 range, tables, input>>

NextPure == CallFmtSigned \/ CallGeometricCumulativeGrowth

SpecPure == InitPure /\ [][NextPure]_vars

(***************************************************************************)
(* Properties.  What the page shows is read from the tables; what the      *)
(* dataset holds is read from rawData.                                     *)
(***************************************************************************)
\* the rows of the selected fund type
FundData == FilterFundType(rawData, selectedFundType)
\* a renderTables pass has filled the tables
Rendered == tables.growth # <<>>
ShownCompanies == {FundData[i].company_short : i \in DOMAIN FundData}
RowsOfCompany(c) == {i \in DOMAIN FundData : FundData[i].company_short = c}
DatesOf(c) == {FundData[i].report_date : i \in RowsOfCompany(c)}
Earliest(c) == SetMin(DatesOf(c))
Latest(c) == SetMax(DatesOf(c))
DatesOfFund == Range(MapDates(FundData))
\* (latest - earliest) / 365.25 days, in units of 1/YU year
HistoryUnits(c) == 4 * (Latest(c) - Earliest(c))
\* the company's report dates inside the resolved window
WindowDates(c) ==
  IF range.isNull THEN {}
  ELSE {d \in DatesOf(c) : range.start <= d /\ d <= range.end}
\* the company's row of the selected fund type dated d
RowDated(c, d) ==
  FundData[CHOOSE i \in RowsOfCompany(c) : FundData[i].report_date = d]

RowIndex(table, c) ==
  CHOOSE k \in DOMAIN tables[table] : tables[table][k].company_short = c
CellsOf(table, c) == tables[table][RowIndex(table, c)].cells
FundNotExist == MsgCell(t(currentLang, "msg.fund_not_exist"))
NoDataReported == MsgCell(t(currentLang, "msg.no_data_reported"))
IsNumberCell(cell) == cell.msg = ""
CellValue(cell) == IF cell.sign = "-" THEN -cell.digits ELSE cell.digits
PlaceholderRow(table, c) ==
  \A k \in DOMAIN CellsOf(table, c) : CellsOf(table, c)[k] = FundNotExist
PlaceholderEverywhere(c) == \A table \in TableNames : PlaceholderRow(table, c)
\* the company is shown with metrics of its own: its expense-ratio row is a
\* ratio or "no data reported", which only the numeric branch produces
ShownNumeric(c) == ~PlaceholderRow("bik", c)
Before(table, c, d) == RowIndex(table, c) < RowIndex(table, d)

TrailingYears == ParseInt[checkedPeriod]
CoversWindow(c) == Earliest(c) <= range.start /\ Latest(c) >= range.end
SpansYears(c, n) == HistoryUnits(c) >= n * YU

\* C1, as stated: for a trailing-N-years period every manager shown with
\* numeric metrics has its earliest observation on or before start and its
\* latest on or after end, and every manager without that coverage of the
\* window gets the placeholder row
C1_FullCoverageAsStated ==
  (Rendered /\ IsDigits(checkedPeriod)) =>
    \A c \in ShownCompanies :
       /\ ShownNumeric(c) => CoversWindow(c)
       /\ ~CoversWindow(c) => PlaceholderEverywhere(c)

\* C1, amended: for a trailing-N-years period every manager shown with
\* numeric metrics has an observation inside the window and a history of at
\* least N years (latest - earliest, in years of 365.25 days), and so its
\* earliest observation is on or before start; its latest observation need
\* not reach end.  Every manager with no observation in the window or with a
\* shorter history gets the placeholder row in all five tables
C1_HistoryLongEnough ==
  (Rendered /\ IsDigits(checkedPeriod)) =>
    \A c \in ShownCompanies :
       /\ ShownNumeric(c) =>
            /\ WindowDates(c) # {}
            /\ SpansYears(c, TrailingYears)
            /\ Earliest(c) <= range.start
       /\ (WindowDates(c) = {} \/ ~SpansYears(c, TrailingYears)) =>
            PlaceholderEverywhere(c)

\* C1, witness: a trailing-N-years pass that shows one manager with metrics
\* although its latest observation is before end, and another as placeholder
C1_Witness ==
  /\ Rendered
  /\ IsDigits(checkedPeriod)
  /\ \E c, d \in ShownCompanies :
       /\ ShownNumeric(c) /\ Latest(c) < range.end
       /\ PlaceholderEverywhere(d)

\* requestedYears of the checked period, in units of 1/YU year: N for a year
\* count, the span of the whole dataset for ALL
RequiredUnits ==
  IF IsDigits(checkedPeriod) THEN TrailingYears * YU
  ELSE 4 * (SetMax(Range(MapDates(rawData))) - SetMin(Range(MapDates(rawData))))
\* eligibility as the rule states it
EligibleByRule(c) ==
  /\ WindowDates(c) # {}
  /\ checkedPeriod = "YTD" \/ HistoryUnits(c) >= RequiredUnits

\* C2: for every manager of the selected fund type and every period, the
\* manager is treated as eligible iff it has an observation inside the
\* resolved window and either the period is YTD or its history span over
\* 365.25 days is at least requestedYears (whole days: the 1e-6 tolerance
\* never decides)
C2_EligibleIff ==
  Rendered =>
    \A c \in ShownCompanies :
       /\ ShownNumeric(c) <=> EligibleByRule(c)
       /\ ~ShownNumeric(c) => PlaceholderEverywhere(c)

\* C2, witness: under a year count, one manager is eligible and another has
\* observations in the window but too short a history
C2_Witness ==
  /\ Rendered
  /\ IsDigits(checkedPeriod)
  /\ \E c, d \in ShownCompanies :
       /\ ShownNumeric(c)
       /\ WindowDates(d) # {} /\ ~SpansYears(d, TrailingYears)
       /\ PlaceholderEverywhere(d)

\* the company's observations under the selected fund type are those of n
\* consecutive quarters
ConsecutiveQuarters(c, n) ==
  \E q \in 0..(MaxQ + 1 - n) :
     /\ DatesOf(c) = {ParseDate(QuarterEnd(k)) : k \in q..(q + n - 1)}
     /\ Cardinality(RowsOfCompany(c)) = n
AllChangesTwo(c) ==
  \A i \in RowsOfCompany(c) : FundData[i].relative_change = Num(2)
\* "+17.17": ((1.02)^8 - 1) x 100 to two decimals
Growth1717 == PlusCell(1717, 2)
\* the outcome the scenario states: A numeric with +17.17, B the placeholder,
\* A's row before B's in all five tables
ScenarioOutcome ==
  /\ CellsOf("growth", "A") = <<Growth1717>>
  /\ ShownNumeric("A")
  /\ PlaceholderEverywhere("B")
  /\ \A table \in TableNames : Before(table, "A", "B")

\* C3, as stated: manager A with 8 consecutive quarterly observations of 2.0
\* each, manager B with 3 quarters, same fund type, period "2": A is eligible
\* with growth "+17.17", B is the placeholder, A's row precedes B's everywhere
C3_ScenarioAsStated ==
  (/\ Rendered
   /\ checkedPeriod = "2"
   /\ ShownCompanies = {"A", "B"}
   /\ ConsecutiveQuarters("A", 8) /\ AllChangesTwo("A")
   /\ ConsecutiveQuarters("B", 3)) => ScenarioOutcome

\* the scenario with a history of A that the coverage rule accepts: quarterly
\* observations of 2.0 each spanning at least 2 years of 365.25 days (nine
\* quarter ends or more), 8 of them inside the window
ScenarioTwoYears ==
  /\ Rendered
  /\ checkedPeriod = "2"
  /\ ShownCompanies = {"A", "B"}
  /\ \E n \in 9..(MaxQ + 1) : ConsecutiveQuarters("A", n)
  /\ AllChangesTwo("A")
  /\ SpansYears("A", 2)
  /\ Cardinality(WindowDates("A")) = 8
  /\ ConsecutiveQuarters("B", 3)

\* C3, amended: when A's quarterly observations of 2.0 each span at least 2
\* years of 365.25 days and 8 of them are inside the window, and B has 3
\* quarters, period "2" shows A with growth "+17.17", B as the placeholder
\* and A's row before B's in all five tables
C3_ScenarioTwoYears == ScenarioTwoYears => ScenarioOutcome

\* C3, witness: the amended scenario rendered, A showing "+17.17"
C3_Witness == ScenarioTwoYears /\ CellsOf("growth", "A") = <<Growth1717>>

RowIsNumeric(table, k) ==
  \E n \in DOMAIN tables[table][k].cells : IsNumberCell(tables[table][k].cells[n])
RowIsPlaceholder(table, k) ==
  \E n \in DOMAIN tables[table][k].cells : tables[table][k].cells[n] = FundNotExist

\* C4: in each of the five tables every row that carries numeric values comes
\* before every row that carries the 'fund did not exist' placeholder
C4_NumericBeforePlaceholder ==
  Rendered =>
    \A table \in TableNames :
      \A k, n \in DOMAIN tables[table] :
         (RowIsPlaceholder(table, k) /\ RowIsNumeric(table, n)) => n < k

GlobalDates == Range(MapDates(rawData))

\* C5: for period ALL the resolved interval is [min, max] report date of the
\* whole dataset, the rows shown are those of the selected fund type's
\* managers, and a manager is eligible only if it has rows in the interval and
\* its own history under the fund type is at least as long as that interval
C5_AllNeedsGlobalSpan ==
  (Rendered /\ checkedPeriod = "ALL") =>
    /\ range = MkRange(SetMin(GlobalDates), SetMax(GlobalDates))
    /\ \A table \in TableNames :
         {tables[table][k].company_short : k \in DOMAIN tables[table]}
           = ShownCompanies
    /\ \A c \in ShownCompanies :
         /\ ShownNumeric(c) <=>
              Latest(c) - Earliest(c) >= SetMax(GlobalDates) - SetMin(GlobalDates)
         /\ ~ShownNumeric(c) => PlaceholderEverywhere(c)

\* C5, witness: ALL is rendered for a fund type whose own data spans less
\* than the whole dataset, and a manager with history in it is ineligible
C5_Witness ==
  /\ Rendered
  /\ checkedPeriod = "ALL"
  /\ SpanDays(FundData) < SetMax(GlobalDates) - SetMin(GlobalDates)
  /\ \E c \in ShownCompanies :
       /\ Latest(c) > Earliest(c)
       /\ PlaceholderEverywhere(c)

FirstCell(table, k) == tables[table][k].cells[1]
\* the rows of a table that show a number in their first column are in the
\* order dir (1 ascending, -1 descending) of that number
OrderedByFirstCell(table, dir) ==
  \A k, n \in DOMAIN tables[table] :
     (k < n /\ IsNumberCell(FirstCell(table, k)) /\ IsNumberCell(FirstCell(table, n)))
       => dir * (CellValue(FirstCell(table, k)) - CellValue(FirstCell(table, n))) <= 0
\* among the eligible rows of a table, those without a value come last
MissingLast(table) ==
  \A k, n \in DOMAIN tables[table] :
     (/\ ShownNumeric(tables[table][k].company_short)
      /\ ShownNumeric(tables[table][n].company_short)
      /\ ~IsNumberCell(FirstCell(table, k))
      /\ IsNumberCell(FirstCell(table, n))) => n < k

\* C6: within each table the eligible rows are ordered by the family's sort
\* key: growth descending, annualised return descending, extremes by worst
\* quarter ascending, participants by latest count descending with missing
\* counts last, expense ratio ascending with missing ratios last, also when
\* some eligible manager's value is not-a-number
C6_OrderedBySortKey ==
  Rendered =>
    /\ OrderedByFirstCell("growth", -1)
    /\ OrderedByFirstCell("avg", -1)
    /\ OrderedByFirstCell("extremes", 1)
    /\ OrderedByFirstCell("participants", -1) /\ MissingLast("participants")
    /\ OrderedByFirstCell("bik", 1) /\ MissingLast("bik")

\* the change values of the company's rows inside the window
WindowChanges(c) == {RowDated(c, d).relative_change : d \in WindowDates(c)}
NonNullChanges(c) == {v[2] : v \in {w \in WindowChanges(c) : IsNum(w)}}
\* a whole percentage as fmtSigned prints it
PercentCell(v) == IF v > 0 THEN PlusCell(100 * v, 2) ELSE NumCell(100 * v, 2)

\* C7: for every eligible manager the worst quarter is the minimum and the
\* best quarter the maximum of its non-null change values inside the window,
\* and when every change in the window is null both show the placeholder
C7_ExtremesOfNonNull ==
  Rendered =>
    \A c \in ShownCompanies :
       (ShownNumeric(c) /\ NaN \notin WindowChanges(c)) =>
          CellsOf("extremes", c) =
            IF NonNullChanges(c) = {} THEN <<FundNotExist, FundNotExist>>
            ELSE <<PercentCell(SetMin(NonNullChanges(c))),
                   PercentCell(SetMax(NonNullChanges(c)))>>

\* the cutoff of a trailing window: end minus (N x 12 - 1) months
TrailingCutoff == SetMonthBack(SetMax(DatesOfFund), TrailingYears * 12 - 1)
\* the resolved range is the trailing-N-years range of the fund type's rows
TrailingRangeResolved ==
  /\ range.isNull <=> \A d \in DatesOfFund : ~(d > TrailingCutoff)
  /\ ~range.isNull =>
       /\ range.end = SetMax(DatesOfFund)
       /\ range.start \in DatesOfFund
       /\ range.start > TrailingCutoff
       /\ \A d \in DatesOfFund : d > TrailingCutoff => range.start <= d

\* C8: for a trailing-N-years period over a non-empty collection the range
\* has end = the maximum report date and start = the minimum report date
\* strictly after the cutoff, end minus (N x 12 - 1) months; it is undefined
\* exactly when no report date is strictly after the cutoff; the collection
\* is left as it was
C8_TrailingRange ==
  /\ [](Rendered /\ IsDigits(checkedPeriod) => TrailingRangeResolved)
  /\ [][rawData' = rawData]_vars

\* C8, witness: a trailing year resolved to a range that starts after the
\* collection's first report date
C8_Witness ==
  /\ Rendered
  /\ checkedPeriod = "1"
  /\ ~range.isNull
  /\ range.start > SetMin(DatesOfFund)
  /\ range.end = SetMax(DatesOfFund)

\* the company's first-dated and last-dated rows inside the window
FirstRow(c) == RowDated(c, SetMin(WindowDates(c)))
LastRow(c) == RowDated(c, SetMax(WindowDates(c)))
\* a ratio of v / BU to three decimals, in thousandths
Thousandths(v) == (2 * v + BU \div 1000) \div (2 * (BU \div 1000))
HasRatio(c) == IsNum(LastRow(c).bik_pct)

\* C9: for an eligible manager the expense-ratio row shows the bik_pct of its
\* last-dated observation in the window to 3 decimals; when that value is
\* null or NaN the row shows 'no data reported', which differs from 'fund did
\* not exist', comes after every eligible row that has a ratio and before
\* every ineligible manager's row
C9_ExpenseRatioRow ==
  Rendered =>
    \A c \in ShownCompanies :
       EligibleByRule(c) =>
         IF HasRatio(c)
           THEN CellsOf("bik", c) = <<NumCell(Thousandths(LastRow(c).bik_pct[2]), 3)>>
           ELSE /\ CellsOf("bik", c) = <<NoDataReported>>
                /\ NoDataReported # FundNotExist
                /\ \A d \in ShownCompanies :
                     /\ (EligibleByRule(d) /\ HasRatio(d)) => Before("bik", d, c)
                     /\ ~EligibleByRule(d) => Before("bik", c, d)

\* C9, witness: an eligible manager without a last ratio is shown as 'no
\* data reported' beside an eligible manager with a ratio and an ineligible
\* manager
C9_Witness ==
  /\ Rendered
  /\ \E c, d, e \in ShownCompanies :
       /\ EligibleByRule(c) /\ ~HasRatio(c)
       /\ CellsOf("bik", c) = <<NoDataReported>>
       /\ EligibleByRule(d) /\ HasRatio(d)
       /\ ~EligibleByRule(e) /\ PlaceholderRow("bik", e)

HasCounts(c) ==
  IsNum(FirstRow(c).number_of_participants)
    /\ IsNum(LastRow(c).number_of_participants)
\* Math.round of a count of v / PU participants
Rounded(v) == (2 * v + PU) \div (2 * PU)
ChangeCell(diff) == IF diff >= 0 THEN PlusCell(diff, 0) ELSE NumCell(diff, 0)

\* C10: for an eligible manager, if the participant count of its first-dated
\* or last-dated observation in the window is null or NaN, both participant
\* columns show "no data" and the row is below every eligible manager that
\* has counts; otherwise the row shows round(latest) and the change
\* round(latest - first)
C10_ParticipantsRow ==
  Rendered =>
    \A c \in ShownCompanies :
       EligibleByRule(c) =>
         IF HasCounts(c)
           THEN CellsOf("participants", c) =
                  <<NumCell(Rounded(LastRow(c).number_of_participants[2]), 0),
                    ChangeCell(Rounded(LastRow(c).number_of_participants[2]
                                       - FirstRow(c).number_of_participants[2]))>>
           ELSE /\ CellsOf("participants", c) = <<NoDataReported, NoDataReported>>
                /\ \A d \in ShownCompanies :
                     (EligibleByRule(d) /\ HasCounts(d)) =>
                        Before("participants", d, c)

\* the whole number of hundredths nearest to v FP units, a half going up
NearestHundredth(v) ==
  CHOOSE h \in ((v \div 100) - 1)..((v \div 100) + 1) :
    100 * h - 50 <= v /\ v < 100 * h + 50
\* fmtSigned(val, 2) has been called
FmtSignedCalled == output.done /\ input.fn = "fmtSigned"
\* the cell a rounded value of h hundredths is to give
CellOfHundredths(cell, h) ==
  /\ cell.msg = ""
  /\ cell.dec = 2
  /\ cell.digits = (IF h < 0 THEN -h ELSE h)
  /\ (cell.sign = "+") <=> (h > 0)
  /\ (cell.sign = "-") <=> (h < 0)
  /\ (cell.sign = "") <=> (h = 0)

\* C11: fmtSigned(val, 2) prints val rounded to 2 decimals with 2 decimals,
\* with a "+" exactly when the rounded value is above zero, a "-" exactly when
\* it is below zero and no sign when it is zero ("0.00"); 3.456 gives "+3.46";
\* null and NaN give the "fund did not exist" message.
C11_SignedTwoDecimals ==
  FmtSignedCalled =>
    /\ IsMissing(input.val) =>
         output.cell = MsgCell(t(currentLang, "msg.fund_not_exist"))
    /\ IsNum(input.val) =>
         CellOfHundredths(output.cell, NearestHundredth(input.val[2]))
    /\ input.val = Num(34560) => output.cell = PlusCell(346, 2)
    /\ input.val = Num(0) => output.cell = NumCell(0, 2)
\* a value below zero that rounds to zero has been printed as "0.00"
C11_Witness ==
  /\ FmtSignedCalled
  /\ input.val = Num(-50)
  /\ output.cell = NumCell(0, 2)

\* geometricCumulativeGrowth(series) has been called
GrowthCalled == output.done /\ input.fn = "geometricCumulativeGrowth"
\* the entries that are neither null, undefined nor NaN
NumericCount(series) ==
  Cardinality({i \in DOMAIN series : series[i][1] = "num"})
RECURSIVE ProductOfTenths(_, _)
\* the product of 10 * (1 + r / 100) over the numeric entries r from i on
ProductOfTenths(series, i) ==
  IF i > Len(series) THEN 1
  ELSE IF series[i][1] = "num"
         THEN (10 + series[i][2] \div 10) * ProductOfTenths(series, i + 1)
  ELSE ProductOfTenths(series, i + 1)
RECURSIVE TenTo(_)
TenTo(n) == IF n = 0 THEN 1 ELSE 10 * TenTo(n - 1)
\* (product of (1 + r / 100) - 1) * 100 in FP units
ProductGrowth(series) ==
  ProductOfTenths(series, 1) * (GF \div TenTo(NumericCount(series))) - GF
\* series with v put in after its first k entries
InsertAt(series, k, v) ==
  SubSeq(series, 1, k) \o <<v>> \o SubSeq(series, k + 1, Len(series))

\* C12: geometricCumulativeGrowth skips null, undefined and NaN entries: the
\* result is (the product of (1 + r / 100) over the other entries - 1) * 100,
\* an entry of these put in anywhere leaves the result as it is, and the
\* result is NaN exactly when the series has no other entry.
C12_IgnoresMissingEntries ==
  GrowthCalled =>
    /\ (output.val = NaN) <=> (NumericCount(input.series) = 0)
    /\ NumericCount(input.series) > 0 =>
         output.val = Num(ProductGrowth(input.series))
    /\ \A k \in 0..Len(input.series) : \A v \in {Null, Undefined, NaN} :
         geometricCumulativeGrowth(InsertAt(input.series, k, v)) = output.val
    /\ input.series \in {<<>>, <<Null, Null>>} => output.val = NaN
\* two quarters of 10 percent around a null have given 21 percent
C12_Witness ==
  /\ GrowthCalled
  /\ input.series = <<Num(10), Null, Num(10)>>
  /\ output.val = Num(21 * FP)

\* C13: when getRange gives no interval (a year count without candidate
\* dates, a period code that is no period), every manager of the selected
\* fund type has a 'fund did not exist' row in all five tables and no table
\* has a row with a number.
C13_NullRangeAllPlaceholders ==
  Rendered /\ range.isNull =>
    /\ \A c \in ShownCompanies : PlaceholderEverywhere(c)
    /\ \A table \in TableNames : \A k \in DOMAIN tables[table] :
         ~RowIsNumeric(table, k)

\* the report dates the period buttons are measured on: those of manager mgr
\* under fund type ft, or of the whole fund type when mgr has none there
SelectionDates(ft, mgr) ==
  IF \E i \in DOMAIN rawData :
       rawData[i].fund_type = ft /\ rawData[i].company_short = mgr
    THEN {rawData[i].report_date :
            i \in {j \in DOMAIN rawData : /\ rawData[j].fund_type = ft
                                          /\ rawData[j].company_short = mgr}}
  ELSE {rawData[i].report_date :
          i \in {j \in DOMAIN rawData : rawData[j].fund_type = ft}}
\* p is YTD, ALL, or a year count N <= min(floor(spanYears), 5)
PeriodAllowed(p, ft, mgr) ==
  \/ p \in {"YTD", "ALL"}
  \/ /\ IsDigits(p)
     /\ ParseInt[p] <= MaxPeriodYears
     /\ ParseInt[p] * YU <= 4 * SpanOfDates(SelectionDates(ft, mgr))
\* the tables on the page are those of the checked period
RenderedWithCheckedPeriod ==
  /\ Rendered
  /\ range = getRange(BaseData(rawData, FundData, checkedPeriod), checkedPeriod,
                      rawData)
\* the selection changes to one under which the checked year count is too large
SelectionOutgrown ==
  /\ rawData # <<>>
  /\ rawData' = rawData
  /\ <<selectedFundType', selectedManager'>>
       # <<selectedFundType, selectedManager>>
  /\ ~PeriodAllowed(checkedPeriod, selectedFundType', selectedManager')
\* the checked period of a loaded page changes only to an enabled period, or
\* to YTD when the selection outgrows it
PeriodStep ==
  /\ (rawData # <<>> /\ rawData' = rawData /\ checkedPeriod' # checkedPeriod)
       => (checkedPeriod' \notin disabledPeriods \/ SelectionOutgrown)
  /\ SelectionOutgrown => (checkedPeriod' = "YTD")

\* C14: once the dataset is loaded, whatever the clicks on the menus, the
\* language buttons and the period buttons, the tables are those of a checked
\* period that is YTD, ALL or a year count N <= min(floor(spanYears), 5),
\* spanYears being the history span of the selected manager under the selected
\* fund type (of the whole fund type if the manager has no rows there); the
\* year counts above that are disabled, the checked period changes only to an
\* enabled one, and a selection change that makes the checked year count too
\* large sets the period to YTD.
C14_PeriodWithinSpan ==
  /\ [](rawData # <<>> =>
         /\ PeriodAllowed(checkedPeriod, selectedFundType, selectedManager)
         /\ disabledPeriods =
              {p \in PeriodValues :
                 ~PeriodAllowed(p, selectedFundType, selectedManager)}
         /\ RenderedWithCheckedPeriod)
  /\ [][PeriodStep]_vars
\* manager B, whose history is between one and two years long, is selected
\* with the one-year period checked and the longer ones disabled
C14_Witness ==
  /\ rawData # <<>>
  /\ selectedManager = "B"
  /\ checkedPeriod = "1"
  /\ disabledPeriods = {"2", "3", "4", "5"}
  /\ RenderedWithCheckedPeriod

\* the rows of a table that carry the company
RowCount(table, c) ==
  Cardinality({k \in DOMAIN tables[table] :
                 tables[table][k].company_short = c})
\* every company of the selected fund type has one row in each table, and
\* the tables have no other row
OnceInEachTable ==
  \A table \in TableNames :
     /\ Len(tables[table]) = Cardinality(ShownCompanies)
     /\ \A c \in ShownCompanies : RowCount(table, c) = 1
PlaceholderSomewhere(c) == \E table \in TableNames : PlaceholderRow(table, c)

\* C15, as stated: in every rendering each manager with an observation under
\* the selected fund type appears exactly once in each of the five tables, and
\* is a 'fund did not exist' row in one table iff it is one in all five
C15_PlaceholderInOneIffAll ==
  Rendered =>
    /\ OnceInEachTable
    /\ \A c \in ShownCompanies :
         PlaceholderSomewhere(c) <=> PlaceholderEverywhere(c)

\* C15, amended: in every rendering each manager with an observation under
\* the selected fund type appears exactly once in each of the five tables; an
\* ineligible manager is a 'fund did not exist' row in all five and an
\* eligible manager is never one in the expense-ratio table, so the split is
\* the same in every table, with the eligible managers' rows first.  An
\* eligible manager may still show the placeholder in the growth, annualised
\* return, extremes or participants table when its own values are missing
C15_SameSplitInEveryTable ==
  Rendered =>
    /\ OnceInEachTable
    /\ \A c \in ShownCompanies :
         /\ PlaceholderRow("bik", c) <=> ~EligibleByRule(c)
         /\ PlaceholderRow("bik", c) => PlaceholderEverywhere(c)
    /\ \A c, d \in ShownCompanies :
         (~PlaceholderRow("bik", c) /\ PlaceholderRow("bik", d)) =>
           \A table \in TableNames : Before(table, c, d)

\* C15, witness: one manager is the placeholder in all five tables and an
\* eligible one, whose changes are all missing, is the placeholder in the
\* growth table next to its expense ratio
C15_Witness ==
  /\ Rendered
  /\ \E c, d \in ShownCompanies :
       /\ PlaceholderEverywhere(d)
       /\ PlaceholderRow("growth", c)
       /\ IsNumberCell(CellsOf("bik", c)[1])
       /\ \A k \in DOMAIN CellsOf("participants", c) :
            IsNumberCell(CellsOf("participants", c)[k])
====
